---- MODULE Spec2Model ----
(***************************************************************************)
(* A model of the Weblate request handlers for the term dictionary         *)
(* (trans/views/dictionary.py), the failing-check listings                 *)
(* (trans/views/checks.py), the URL table (weblate/urls.py) and the        *)
(* initialisation of the weblate package (weblate/__init__.py).            *)
(*                                                                         *)
(* Each handler is an operator from the request and the database to the    *)
(* new database and the response; the action of the same name applies it.  *)
(* Terms of the dictionary are numbers: a term's number is its rank in the *)
(* database's collation order, so that ORDER BY source is the order of     *)
(* the numbers.                                                            *)
(***************************************************************************)
EXTENDS Integers, Sequences, FiniteSets, TLC

VARIABLES
    dictionary,   \* the rows of the Dictionary table
    nextId,       \* the next value of Dictionary's auto-increment key
    resp,         \* the dictionary request being answered, with its response
    checks,       \* the rows of the Check table
    units,        \* the rows of the Unit table
    cresp,        \* the checks request being answered, with its response
    path,         \* the path of the request to dispatch
    included,     \* the include()d URLconfs that resolve the rest of path
    route,        \* the outcome of the dispatch of path
    pc,           \* where the initialisation of the weblate package is
    env,          \* what that initialisation finds: checkout, git module, tag
    VERSION,      \* weblate.VERSION
    RUNNING_GIT,  \* weblate.RUNNING_GIT
    GIT_RELEASE,  \* weblate.GIT_RELEASE
    GIT_VERSION,  \* weblate.GIT_VERSION
    raised,       \* the exception that left the initialisation, if any
    doc_url       \* the last result of get_doc_url

dictVars == <<dictionary, nextId, resp>>
checkVars == <<checks, units, cresp>>
urlVars == <<path, included, route>>
initVars == <<pc, env, VERSION, RUNNING_GIT, GIT_RELEASE, GIT_VERSION,
              raised, doc_url>>

vars == <<dictVars, checkVars, urlVars, initVars>>

(***************************************************************************)
(* Bounds of the model.                                                    *)
(***************************************************************************)
MaxId == 2          \* Dictionary rows ever created in a run
MaxWord == 2        \* distinct terms
MaxPaged == 51      \* rows of the dictionary in the paging runs
MaxFileUnits == 1   \* units of an uploaded file

(***************************************************************************)
(* The objects the requests name.                                          *)
(***************************************************************************)
Projects == {"p1", "p2"}
ProjectArgs == Projects \cup {"nope"}
Languages == {"cs", "de"}
LangArgs == Languages \cup {"xx"}
Blank == 0                       \* an empty form field
NoId == 0                        \* the request carries no id parameter
IdArgs == {NoId} \cup 1..(MaxId + 1)
Absent == "absent"               \* a request parameter that is not given

Perms == {"trans.add_dictionary", "trans.change_dictionary",
          "trans.delete_dictionary", "trans.upload_dictionary"}
Anonymous == [auth |-> FALSE, perms |-> {}]
Users == {Anonymous} \cup
         {[auth |-> TRUE, perms |-> P] :
             P \in {{}, Perms,
                    {"trans.add_dictionary", "trans.change_dictionary"},
                    {"trans.delete_dictionary", "trans.upload_dictionary"}}}

\* request.user.has_perm: the anonymous user holds no permission.
has_perm(user, perm) == user.auth /\ perm \in user.perms

\* @login_required: the view runs only for an authenticated user.
login_required(user) == user.auth

\* @permission_required(perm): the view runs only if the user has perm.
permission_required(perm, user) == has_perm(user, perm)

\* get_project: the project of that slug, or Http404.
get_project(project) == project \in Projects

\* get_object_or_404(Language, code=lang)
get_language(lang) == lang \in Languages

\* WordForm.is_valid: source and target are required fields.
WordFormValid(form) == form.source # Blank /\ form.target # Blank

\* An uploaded file: none, one the toolkit cannot load, one it cannot load
\* and whose error quotes bytes of the file that are not ASCII, or a list
\* of units.
NoFile == [kind |-> "absent", units |-> <<>>]
BrokenFile == [kind |-> "broken", units |-> <<>>]
GarbledFile == [kind |-> "garbled", units |-> <<>>]
GoodFile(us) == [kind |-> "ok", units |-> us]

\* DictUploadForm.is_valid: the file is a required field.
DictUploadFormValid(file) == file.kind # "absent"

\* A request parameter read as text: not given, not a number, or a number.
NoParam == [kind |-> "absent", n |-> 0]
TextParam == [kind |-> "text", n |-> 0]
IntParam(n) == [kind |-> "int", n |-> n]

NoForm == [source |-> Blank, target |-> Blank]

(***************************************************************************)
(* Requests and responses.                                                 *)
(***************************************************************************)
NoRequest ==
    [handler |-> "none", user |-> Anonymous, method |-> "GET",
     project |-> "p1", lang |-> "cs", qid |-> NoId, pid |-> NoId,
     form |-> NoForm, file |-> NoFile, upmethod |-> "",
     fmt |-> Absent, page |-> NoParam, limit |-> NoParam, letter |-> ""]

NoResponse ==
    [req |-> NoRequest, outcome |-> "none", location |-> <<>>,
     template |-> "", messages |-> <<>>, mimetype |-> "", filename |-> <<>>,
     header |-> FALSE, rows |-> <<>>, number |-> 0, num_pages |-> 0]

Response(req) == [NoResponse EXCEPT !.req = req]

NotFound(req) == [Response(req) EXCEPT !.outcome = "404"]

\* An exception leaves the handler.
ServerError(req) == [Response(req) EXCEPT !.outcome = "error"]

\* The decorators redirect to the login page.
LoginRedirect(req) ==
    [Response(req) EXCEPT !.outcome = "redirect", !.location = <<"login">>]

\* HttpResponseRedirect(reverse('show_dictionary', kwargs=...))
RedirectToDictionary(req, messages) ==
    [Response(req) EXCEPT !.outcome = "redirect",
        !.location = <<"show_dictionary", req.project, req.lang>>,
        !.messages = messages]

Render(req, template) ==
    [Response(req) EXCEPT !.outcome = "page", !.template = template]

Result(db, next, response) == [db |-> db, next |-> next, resp |-> response]

\* Dictionary.objects.filter(project=prj, language=lang)
WordsOf(db, project, lang) ==
    {w \in db : w.project = project /\ w.language = lang}

\* get_object_or_404(Dictionary, project=prj, language=lang, id=id):
\* id=None selects no row.
WordById(db, project, lang, id) ==
    {w \in WordsOf(db, project, lang) : id # NoId /\ w.id = id}

(***************************************************************************)
(* edit_dictionary                                                         *)
(***************************************************************************)

EditAllowed(user) ==
    login_required(user) /\ permission_required("trans.change_dictionary", user)

EditLookupAnyScope(db, req) == {w \in db : req.qid # NoId /\ w.id = req.qid}

EditLookup(db, req) == WordById(db, req.project, req.lang, req.qid)

edit_dictionary(db, next, req) ==
    IF ~EditAllowed(req.user) THEN Result(db, next, LoginRedirect(req))
    ELSE IF ~get_project(req.project) THEN Result(db, next, NotFound(req))
    ELSE IF ~get_language(req.lang) THEN Result(db, next, NotFound(req))
    ELSE IF EditLookup(db, req) = {} THEN Result(db, next, NotFound(req))
    ELSE LET word == CHOOSE w \in EditLookup(db, req) : TRUE
         IN  IF req.method = "POST" /\ WordFormValid(req.form)
             THEN Result((db \ {word}) \cup
                            {[word EXCEPT !.source = req.form.source,
                                          !.target = req.form.target]},
                         next, RedirectToDictionary(req, <<>>))
             ELSE Result(db, next, Render(req, "edit_dictionary.html"))

(***************************************************************************)
(* delete_dictionary                                                       *)
(***************************************************************************)
DeleteAllowedNoPerm(user) == login_required(user)

DeleteAllowed(user) ==
    login_required(user) /\ permission_required("trans.delete_dictionary", user)

DeleteLookup(db, req) == WordById(db, req.project, req.lang, req.pid)

delete_dictionary(db, next, req) ==
    IF ~DeleteAllowed(req.user) THEN Result(db, next, LoginRedirect(req))
    ELSE IF ~get_project(req.project) THEN Result(db, next, NotFound(req))
    ELSE IF ~get_language(req.lang) THEN Result(db, next, NotFound(req))
    ELSE IF DeleteLookup(db, req) = {} THEN Result(db, next, NotFound(req))
    ELSE LET word == CHOOSE w \in DeleteLookup(db, req) : TRUE
         IN  Result(db \ {word}, next, RedirectToDictionary(req, <<>>))

(***************************************************************************)
(* upload_dictionary                                                       *)
(***************************************************************************)
\* Dictionary.objects.upload(prj, lang, file, method) over the units left:
\* each unit is looked up by project, language and source (get_or_create);
\* a new term is stored, a known one with another target is added again
\* (method 'add'), overwritten (method 'overwrite') or skipped.  The result
\* is the database, the key counter, the count of words imported, whether
\* an exception was raised and whether its message is ASCII text.
RECURSIVE upload(_, _, _, _, _, _, _)
upload(db, next, project, lang, store, method, count) ==
    IF store = <<>>
    THEN [db |-> db, next |-> next, count |-> count, raised |-> FALSE,
          ascii |-> TRUE]
    ELSE LET unit == Head(store)
             same == {w \in WordsOf(db, project, lang) : w.source = unit.source}
             new == [id |-> next, project |-> project, language |-> lang,
                     source |-> unit.source, target |-> unit.target]
         IN  IF Cardinality(same) > 1
             THEN [db |-> db, next |-> next, count |-> count, raised |-> TRUE,
                   ascii |-> TRUE]
             ELSE IF same = {}
             THEN upload(db \cup {new}, next + 1, project, lang,
                         Tail(store), method, count + 1)
             ELSE LET word == CHOOSE w \in same : TRUE
                  IN  IF word.target = unit.target
                      THEN upload(db, next, project, lang,
                                  Tail(store), method, count)
                      ELSE IF method = "add"
                      THEN upload(db \cup {new}, next + 1, project, lang,
                                  Tail(store), method, count + 1)
                      ELSE IF method = "overwrite"
                      THEN upload((db \ {word}) \cup
                                      {[word EXCEPT !.target = unit.target]},
                                  next, project, lang,
                                  Tail(store), method, count + 1)
                      ELSE upload(db, next, project, lang,
                                  Tail(store), method, count)

\* Dictionary.objects.upload: a file the toolkit cannot load raises.
DictionaryUpload(db, next, project, lang, file, method) ==
    IF file.kind \in {"broken", "garbled"}
    THEN [db |-> db, next |-> next, count |-> 0, raised |-> TRUE,
          ascii |-> file.kind = "broken"]
    ELSE upload(db, next, project, lang, file.units, method, 0)

UploadAllowed(user) ==
    login_required(user) /\ permission_required("trans.upload_dictionary", user)

\* The message of an upload that did not raise.
UploadCountMessage(count) ==
    IF count = 0 THEN <<[level |-> "warning", count |-> 0]>>
    ELSE <<[level |-> "info", count |-> count]>>

ErrorMessage == <<[level |-> "error", count |-> 0]>>

\* unicode(e) decodes the message of the exception as ASCII.
UnicodeDecodeError(up) == up.raised /\ ~up.ascii

UploadInvalidFormSilent == <<>>

\* messages.error(request, _('Failed to process form!')) of an invalid form
UploadInvalidFormMessage == ErrorMessage

upload_dictionary(db, next, req) ==
    IF ~UploadAllowed(req.user) THEN Result(db, next, LoginRedirect(req))
    ELSE IF ~get_project(req.project) THEN Result(db, next, NotFound(req))
    ELSE IF ~get_language(req.lang) THEN Result(db, next, NotFound(req))
    ELSE IF req.method = "POST"
    THEN IF DictUploadFormValid(req.file)
         THEN LET up == DictionaryUpload(db, next, req.project, req.lang,
                                         req.file, req.upmethod)
              IN  IF UnicodeDecodeError(up)
                  THEN Result(up.db, up.next, ServerError(req))
                  ELSE IF up.raised
                  THEN Result(up.db, up.next,
                              RedirectToDictionary(req, ErrorMessage))
                  ELSE Result(up.db, up.next,
                              RedirectToDictionary(req,
                                  UploadCountMessage(up.count)))
         ELSE Result(db, next,
                     RedirectToDictionary(req, UploadInvalidFormMessage))
    ELSE Result(db, next, RedirectToDictionary(req, ErrorMessage))

(***************************************************************************)
(* download_dictionary                                                     *)
(***************************************************************************)
\* The database's order of two rows of the same source: .order_by('source')
\* leaves it open, and it is taken here to follow the key, up or down.
Ties == {"asc", "desc"}

Before(x, y, tie) ==
    \/ x.source < y.source
    \/ /\ x.source = y.source
       /\ IF tie = "asc" THEN x.id <= y.id ELSE x.id >= y.id

\* .order_by('source'): the rows in ascending order of source.
RECURSIVE OrderBySource(_, _)
OrderBySource(S, tie) ==
    IF S = {} THEN <<>>
    ELSE LET first == CHOOSE x \in S : \A y \in S : Before(x, y, tie)
         IN  <<first>> \o OrderBySource(S \ {first}, tie)

\* One exported row or unit per word.
Rows(order) == [i \in 1..Len(order) |->
                   [source |-> order[i].source, target |-> order[i].target]]

\* "Parse parameters": csv unless the parameter is one of csv, po, tbx.
ExportFormat(fmt) == IF fmt \in {"csv", "po", "tbx"} THEN fmt ELSE "csv"

\* download_dictionary_ttkit: the store of the toolkit, PO or else TBX.
download_dictionary_ttkit(export_format, req, order) ==
    IF export_format = "po"
    THEN [Response(req) EXCEPT !.outcome = "download",
            !.mimetype = "text/x-po",
            !.filename = <<"glossary", req.project, req.lang, "po">>,
            !.header = TRUE, !.rows = Rows(order)]
    ELSE [Response(req) EXCEPT !.outcome = "download",
            !.mimetype = "application/x-tbx",
            !.filename = <<"glossary", req.project, req.lang, "tbx">>,
            !.rows = Rows(order)]

DownloadWordsAnyProject(db, req) == {w \in db : w.language = req.lang}

\* "Grab all words"
DownloadWords(db, req) == WordsOf(db, req.project, req.lang)

download_dictionary(db, next, req, tie) ==
    IF ~get_project(req.project) THEN Result(db, next, NotFound(req))
    ELSE IF ~get_language(req.lang) THEN Result(db, next, NotFound(req))
    ELSE LET export_format == ExportFormat(req.fmt)
             order == OrderBySource(DownloadWords(db, req), tie)
         IN  IF export_format \in {"po", "tbx"}
             THEN Result(db, next,
                         download_dictionary_ttkit(export_format, req, order))
             ELSE Result(db, next,
                     [Response(req) EXCEPT !.outcome = "download",
                        !.mimetype = "text/csv",
                        !.filename = <<"dictionary", req.project, req.lang, "csv">>,
                        !.rows = Rows(order)])

(***************************************************************************)
(* show_dictionary                                                         *)
(***************************************************************************)
DefaultLimit == 25
Letters == {"a", "b"}

\* The first letter of a term.
Initial(w) == IF w % 2 = 1 THEN "a" ELSE "b"

\* LetterForm.is_valid: the letter is optional and one of the choices.
LetterFormValid(letter) == letter \in Letters \cup {""}

\* Paginator.num_pages: an empty list still has its first page.
NumPages(count, per_page) ==
    LET hits == IF count > 1 THEN count ELSE 1
    IN  (hits + per_page - 1) \div per_page

\* Paginator.validate_number
PageNotAnInteger(page) == page.kind = "text"
EmptyPage(page, num_pages) ==
    page.kind = "int" /\ (page.n < 1 \/ page.n > num_pages)

PageNumberFirstWhenEmpty(page, num_pages) ==
    IF page.kind = "absent" THEN 1
    ELSE IF PageNotAnInteger(page) THEN 1
    ELSE IF EmptyPage(page, num_pages) THEN 1
    ELSE page.n

\* The try/except around paginator.page(page): the number of the page
\* that is delivered.
PageNumber(page, num_pages) ==
    IF page.kind = "absent" THEN 1
    ELSE IF PageNotAnInteger(page) THEN 1
    ELSE IF EmptyPage(page, num_pages) THEN num_pages
    ELSE page.n

\* Paginator.page(number).object_list
PageRows(order, number, per_page) ==
    LET bottom == (number - 1) * per_page
        top == IF bottom + per_page >= Len(order) THEN Len(order)
               ELSE bottom + per_page
    IN  SubSeq(order, bottom + 1, top)

\* The words listed: those of the project and language, of the letter asked.
ListedWords(db, req) ==
    IF LetterFormValid(req.letter) /\ req.letter # ""
    THEN {w \in WordsOf(db, req.project, req.lang) :
             Initial(w.source) = req.letter}
    ELSE WordsOf(db, req.project, req.lang)

\* The permission is not asked for.
AddAllowedAnyone(user) == TRUE

\* request.user.has_perm('trans.add_dictionary')
AddAllowed(user) == has_perm(user, "trans.add_dictionary")

show_dictionary(db, next, req, tie) ==
    IF ~get_project(req.project) THEN Result(db, next, NotFound(req))
    ELSE IF ~get_language(req.lang) THEN Result(db, next, NotFound(req))
    ELSE IF req.method = "POST" /\ AddAllowed(req.user)
    THEN LET redirect == [Response(req) EXCEPT !.outcome = "redirect",
                                               !.location = <<"self">>]
         IN  IF WordFormValid(req.form)
             THEN Result(db \cup {[id |-> next, project |-> req.project,
                                   language |-> req.lang,
                                   source |-> req.form.source,
                                   target |-> req.form.target]},
                         next + 1, redirect)
             ELSE Result(db, next, redirect)
    ELSE LET order == OrderBySource(ListedWords(db, req), tie)
             per_page == IF req.limit.kind = "int" THEN req.limit.n
                         ELSE DefaultLimit
             num_pages == NumPages(Len(order), per_page)
             number == PageNumber(req.page, num_pages)
         IN  Result(db, next,
                    [Render(req, "dictionary.html") EXCEPT
                        !.number = number, !.num_pages = num_pages,
                        !.rows = Rows(PageRows(order, number, per_page))])

(***************************************************************************)
(* The actions: one request to one handler.                                *)
(***************************************************************************)
\* A request is taken when the response to the one before is sent.
Idle == resp = NoResponse

\* No more than MaxId rows are created in a run.
Apply(r) ==
    /\ r.next = nextId \/ r.next <= MaxId + 1
    /\ dictionary' = r.db
    /\ nextId' = r.next
    /\ resp' = r.resp
    /\ UNCHANGED <<checkVars, urlVars, initVars>>

Forms == {[source |-> 1, target |-> MaxWord], [source |-> MaxWord, target |-> 1],
          [source |-> Blank, target |-> 1]}

Files == {NoFile, BrokenFile, GarbledFile} \cup
         {GoodFile(us) :
             us \in UNION {[1..n -> {f \in Forms : WordFormValid(f)}] :
                              n \in 0..MaxFileUnits}}

Methods == {"GET", "POST"}

EditDictionary(users, projects, langs) ==
    /\ Idle
    /\ \E user \in users, method \in Methods, project \in projects,
       lang \in langs, id \in IdArgs, form \in Forms :
        Apply(edit_dictionary(dictionary, nextId,
            [NoRequest EXCEPT !.handler = "edit_dictionary", !.user = user,
                !.method = method, !.project = project, !.lang = lang,
                !.qid = id,
                !.form = IF method = "POST" THEN form ELSE NoForm]))

\* A GET request has no body, so request.POST holds no id.
DeleteDictionary(users, projects, langs) ==
    /\ Idle
    /\ \E user \in users, method \in Methods, project \in projects,
       lang \in langs, id \in IdArgs :
        Apply(delete_dictionary(dictionary, nextId,
            [NoRequest EXCEPT !.handler = "delete_dictionary", !.user = user,
                !.method = method, !.project = project, !.lang = lang,
                !.qid = IF method = "GET" THEN id ELSE NoId,
                !.pid = IF method = "POST" THEN id ELSE NoId]))

UploadDictionary(users, projects, langs) ==
    /\ Idle
    /\ \E user \in users, method \in Methods, project \in projects,
       lang \in langs, file \in Files, upmethod \in {"", "add", "overwrite"} :
        Apply(upload_dictionary(dictionary, nextId,
            [NoRequest EXCEPT !.handler = "upload_dictionary", !.user = user,
                !.method = method, !.project = project, !.lang = lang,
                !.file = IF method = "POST" THEN file ELSE NoFile,
                !.upmethod = IF method = "POST" /\ file.kind # "absent"
                             THEN upmethod ELSE ""]))

DownloadDictionary(projects, langs) ==
    /\ Idle
    /\ \E project \in projects, lang \in langs,
       fmt \in {Absent, "csv", "po", "tbx", "xml", ""} :
        LET req == [NoRequest EXCEPT !.handler = "download_dictionary",
                        !.project = project, !.lang = lang, !.fmt = fmt]
        IN  \E tie \in Ties :
                Apply(download_dictionary(dictionary, nextId, req, tie))

ShowDictionary(users, projects, langs, pages, limits, letters) ==
    /\ Idle
    /\ \E user \in users, method \in Methods, project \in projects,
       lang \in langs, form \in Forms, page \in pages, limit \in limits,
       letter \in letters :
        LET req == [NoRequest EXCEPT !.handler = "show_dictionary",
                        !.user = user, !.method = method,
                        !.project = project, !.lang = lang,
                        !.form = IF method = "POST" THEN form ELSE NoForm,
                        !.page = page, !.limit = limit, !.letter = letter]
        IN  \E tie \in Ties :
                Apply(show_dictionary(dictionary, nextId, req, tie))

\* The response is sent to the client and the request is over.
Respond ==
    /\ resp # NoResponse
    /\ resp' = NoResponse
    /\ UNCHANGED <<dictionary, nextId, checkVars, urlVars, initVars>>

(***************************************************************************)
(* The failing checks: trans/views/checks.py.                              *)
(***************************************************************************)
MaxChecks == 2      \* rows of the Check table

\* trans.checks.CHECKS: a check looks at the translation (target) or at
\* the source string (source).
CHECKS == [name \in {"same", "optional_plural"} |->
              IF name = "same" THEN [target |-> TRUE, source |-> FALSE]
              ELSE [target |-> FALSE, source |-> TRUE]]

NameArgs == DOMAIN CHECKS \cup {"bogus"}
NoLang == "null"                 \* Check.language of a source check
Checksums == {"c1", "c2"}

\* Project -> SubProject -> Translation: s4 has no translation yet.
SubProjects == {[slug |-> "s1", project |-> "p1"],
                [slug |-> "s2", project |-> "p1"],
                [slug |-> "s3", project |-> "p2"],
                [slug |-> "s4", project |-> "p2"]}
SubProjectArgs == {s.slug : s \in SubProjects} \cup {"nope"}
Translations == {[subproject |-> "s1", language |-> "cs"],
                 [subproject |-> "s1", language |-> "de"],
                 [subproject |-> "s2", language |-> "cs"],
                 [subproject |-> "s3", language |-> "cs"]}

ProjectOf(slug) == (CHOOSE s \in SubProjects : s.slug = slug).project

\* The units of the translations, by checksum; translated says which of
\* them are translated.
UnitTable(translated) ==
    {[id |-> 1, subproject |-> "s1", language |-> "cs", checksum |-> "c1",
      translated |-> translated[1]],
     [id |-> 2, subproject |-> "s1", language |-> "de", checksum |-> "c1",
      translated |-> translated[2]],
     [id |-> 3, subproject |-> "s1", language |-> "cs", checksum |-> "c2",
      translated |-> translated[3]],
     [id |-> 4, subproject |-> "s2", language |-> "cs", checksum |-> "c1",
      translated |-> translated[4]],
     [id |-> 5, subproject |-> "s2", language |-> "cs", checksum |-> "c2",
      translated |-> translated[5]],
     [id |-> 6, subproject |-> "s3", language |-> "cs", checksum |-> "c1",
      translated |-> translated[6]]}

\* The rows a Check table can hold: a target check names a language, a
\* source check none.
CheckRows ==
    {[check |-> n, project |-> p, language |-> l, checksum |-> c, ignore |-> i] :
        n \in DOMAIN CHECKS, p \in Projects, l \in Languages \cup {NoLang},
        c \in Checksums, i \in BOOLEAN}

ValidCheckRows ==
    {r \in CheckRows : IF CHECKS[r.check].target THEN r.language # NoLang
                       ELSE r.language = NoLang}

CheckKey(r) == <<r.check, r.project, r.language, r.checksum>>

NoCheckRequest == [handler |-> "none", name |-> "", project |-> "",
                   subproject |-> ""]

NoCheckResponse == [req |-> NoCheckRequest, outcome |-> "none", rows |-> {},
                    source_checks |-> <<>>, anychecks |-> FALSE]

CheckPage(req, rows) ==
    [NoCheckResponse EXCEPT !.req = req, !.outcome = "page", !.rows = rows]

\* raise Http404
CheckNotFound(req) == [NoCheckResponse EXCEPT !.req = req, !.outcome = "404"]

\* An exception the handler does not catch: a server error.
CheckError(req) == [NoCheckResponse EXCEPT !.req = req, !.outcome = "error"]

AllChecks(chk) == chk

\* Check.objects.filter(ignore=False)
FailingChecks(chk) == {c \in chk : ~c.ignore}

\* show_checks: .values('check').annotate(count=Count('id'))
show_checks(chk, req) ==
    LET failing == FailingChecks(chk)
    IN  CheckPage(req,
            {[key |-> <<n>>,
              count |-> Cardinality({c \in failing : c.check = n})] :
                n \in {c.check : c \in failing}})

\* The lookup fails for no name.
show_check_without_404(chk, req) ==
    CheckPage(req, {[key |-> <<p>>,
                     count |-> Cardinality({c \in FailingChecks(chk) :
                                  c.check = req.name /\ c.project = p})] :
                       p \in {c.project : c \in {c \in FailingChecks(chk) :
                                                    c.check = req.name}}})

\* show_check: .values('project__slug').annotate(count=Count('id'))
show_check(chk, req) ==
    IF req.name \notin DOMAIN CHECKS THEN CheckNotFound(req)
    ELSE LET failing == {c \in FailingChecks(chk) : c.check = req.name}
         IN  CheckPage(req,
                 {[key |-> <<p>>,
                   count |-> Cardinality({c \in failing : c.project = p})] :
                     p \in {c.project : c \in failing}})

\* Check.objects.filter(check=name, project=prj, ignore=False)
ProjectChecks(chk, name, project) ==
    {c \in FailingChecks(chk) : c.check = name /\ c.project = project}

\* .values_list('checksum', flat=True) of those of one language
ChecksumsOf(chk, name, project, lang) ==
    {c.checksum : c \in {c \in ProjectChecks(chk, name, project) :
                            c.language = lang}}

ProjectTargetUnitsAnyLanguage(chk, uns, name, project, lang) ==
    {u \in uns : /\ u.checksum \in ChecksumsOf(chk, name, project, lang)
                 /\ ProjectOf(u.subproject) = project
                 /\ u.translated}

\* Unit.objects.filter(checksum__in=checks, translation__language=lang,
\*     translation__subproject__project=prj, translated=True)
ProjectTargetUnits(chk, uns, name, project, lang) ==
    {u \in uns : /\ u.checksum \in ChecksumsOf(chk, name, project, lang)
                 /\ u.language = lang
                 /\ ProjectOf(u.subproject) = project
                 /\ u.translated}

\* subproject.translation_set.all(): in the order of the languages.
TranslationsOf(slug) == {t \in Translations : t.subproject = slug}

LanguageOrder == <<"cs", "de">>

\* subproject.translation_set.all()[0].language, where there is one
FirstLanguage(slug) ==
    LET i == CHOOSE i \in 1..Len(LanguageOrder) :
                 /\ \E t \in TranslationsOf(slug) : t.language = LanguageOrder[i]
                 /\ \A j \in 1..(i - 1) :
                       \A t \in TranslationsOf(slug) : t.language # LanguageOrder[j]
    IN  LanguageOrder[i]

\* Unit.objects.filter(checksum__in=checks, translation__language=lang,
\*     translation__subproject=subproject) for the source checks
SourceUnits(chk, uns, name, project, slug) ==
    {u \in uns : /\ u.checksum \in ChecksumsOf(chk, name, project, NoLang)
                 /\ u.language = FirstLanguage(slug)
                 /\ u.subproject = slug}

\* show_check_project: the units of the querysets or-ed together, counted
\* by subproject.
show_check_project(chk, uns, req) ==
    IF ~get_project(req.project) THEN CheckNotFound(req)
    ELSE IF req.name \notin DOMAIN CHECKS THEN CheckNotFound(req)
    ELSE LET check == CHECKS[req.name]
             subs == {s.slug : s \in {s \in SubProjects : s.project = req.project}}
             langs == {c.language : c \in ProjectChecks(chk, req.name, req.project)}
             target == IF check.target
                       THEN UNION {ProjectTargetUnits(chk, uns, req.name,
                                                      req.project, lang) :
                                      lang \in langs}
                       ELSE {}
             source == IF check.source
                       THEN UNION {SourceUnits(chk, uns, req.name,
                                               req.project, slug) :
                                      slug \in {s \in subs : TranslationsOf(s) # {}}}
                       ELSE {}
             found == target \cup source
         IN  IF check.source /\ \E s \in subs : TranslationsOf(s) = {}
             THEN CheckError(req)
             ELSE CheckPage(req,
                     {[key |-> <<s, req.project>>,
                       count |-> Cardinality({u \in found : u.subproject = s})] :
                         s \in {u.subproject : u \in found}})

\* get_subproject: the subproject of that slug in that project, or Http404.
get_subproject(project, subproject) ==
    \E s \in SubProjects : s.slug = subproject /\ s.project = project

\* Unit.objects.filter(translation__subproject=subprj, checksum__in=checks,
\*     translation__language=lang, translated=True)
SubprojectTargetUnits(chk, uns, name, project, slug, lang) ==
    {u \in uns : /\ u.subproject = slug
                 /\ u.checksum \in ChecksumsOf(chk, name, project, lang)
                 /\ u.language = lang
                 /\ u.translated}

\* show_check_subproject: the target checks counted by language, and the
\* count of the units failing a source check.
show_check_subproject(chk, uns, req) ==
    IF ~get_subproject(req.project, req.subproject) THEN CheckNotFound(req)
    ELSE IF req.name \notin DOMAIN CHECKS THEN CheckNotFound(req)
    ELSE LET check == CHECKS[req.name]
             langs == {c.language : c \in ProjectChecks(chk, req.name, req.project)}
             found == IF check.target
                      THEN UNION {SubprojectTargetUnits(chk, uns, req.name,
                                      req.project, req.subproject, lang) :
                                     lang \in langs}
                      ELSE {}
             rows == {[key |-> <<l>>,
                       count |-> Cardinality({u \in found : u.language = l})] :
                         l \in {u.language : u \in found}}
         IN  IF check.source /\ TranslationsOf(req.subproject) = {}
             THEN CheckError(req)
             ELSE LET res == IF check.source
                             THEN Cardinality(SourceUnits(chk, uns, req.name,
                                      req.project, req.subproject))
                             ELSE 0
                      source_checks == IF res > 0 THEN <<res>> ELSE <<>>
                  IN  [CheckPage(req, rows) EXCEPT
                          !.source_checks = source_checks,
                          !.anychecks =
                              Cardinality(rows) + Len(source_checks) > 0]

(***************************************************************************)
(* The actions on the checks.                                              *)
(***************************************************************************)
CheckIdle == cresp = NoCheckResponse

ApplyCheck(response) ==
    /\ cresp' = response
    /\ UNCHANGED <<checks, units, dictVars, urlVars, initVars>>

ShowChecks ==
    /\ CheckIdle
    /\ ApplyCheck(show_checks(checks,
           [NoCheckRequest EXCEPT !.handler = "show_checks"]))

ShowCheck ==
    /\ CheckIdle
    /\ \E name \in NameArgs :
          ApplyCheck(show_check(checks,
              [NoCheckRequest EXCEPT !.handler = "show_check", !.name = name]))

ShowCheckProject ==
    /\ CheckIdle
    /\ \E name \in NameArgs, project \in ProjectArgs :
          ApplyCheck(show_check_project(checks, units,
              [NoCheckRequest EXCEPT !.handler = "show_check_project",
                  !.name = name, !.project = project]))

ShowCheckSubproject ==
    /\ CheckIdle
    /\ \E name \in NameArgs, project \in ProjectArgs,
          subproject \in SubProjectArgs :
          ApplyCheck(show_check_subproject(checks, units,
              [NoCheckRequest EXCEPT !.handler = "show_check_subproject",
                  !.name = name, !.project = project,
                  !.subproject = subproject]))

\* trans.views.ignore_check: the check is marked as ignored.
IgnoreCheck ==
    /\ CheckIdle
    /\ \E c \in checks :
          /\ ~c.ignore
          /\ checks' = (checks \ {c}) \cup {[c EXCEPT !.ignore = TRUE]}
    /\ UNCHANGED <<units, cresp, dictVars, urlVars, initVars>>

RespondCheck ==
    /\ ~CheckIdle
    /\ cresp' = NoCheckResponse
    /\ UNCHANGED <<checks, units, dictVars, urlVars, initVars>>

(***************************************************************************)
(* The URL table: weblate/urls.py.                                         *)
(*                                                                         *)
(* A path is a sequence of tokens: "/", the words the table spells out,    *)
(* and "x" (letters), "7" (digits), "-" and "_".  A regular expression of  *)
(* the table is the sequence of its elements.                              *)
(***************************************************************************)
Lit(t) == [kind |-> "lit", tok |-> t, min |-> 1]
Sl == Lit("/")
Rep(class, min) == [kind |-> "rep", tok |-> class, min |-> min]
Seg == Rep("seg", 0)          \* [^/]*
Digits == Rep("digits", 0)    \* [0-9]*
Word == Rep("word", 1)        \* \w+
Alnum == Rep("alnum", 1)      \* [0-9A-Za-z]+
AnyText == Rep("any", 0)          \* .*
AnyText1 == Rep("any", 1)       \* .+
End == [kind |-> "end", tok |-> "", min |-> 0]      \* $

\* The characters of a token are of the class.
InClass(t, class) ==
    CASE class = "seg" -> t # "/"
      [] class = "digits" -> t = "7"
      [] class = "alnum" -> t \notin {"/", "-", "_", "ignore-check"}
      [] class = "word" -> t \notin {"/", "-", "ignore-check"}
      [] class = "any" -> TRUE

\* re.search of the expression, which starts with ^, on the tokens.
RECURSIVE Matches(_, _)
Matches(regex, toks) ==
    IF regex = <<>> THEN TRUE
    ELSE LET e == Head(regex)
         IN  CASE e.kind = "end" -> toks = <<>>
               [] e.kind = "lit" ->
                     /\ toks # <<>>
                     /\ Head(toks) = e.tok
                     /\ Matches(Tail(regex), Tail(toks))
               [] e.kind = "rep" ->
                     \E k \in e.min..Len(toks) :
                         /\ \A i \in 1..k : InClass(toks[i], e.tok)
                         /\ Matches(Tail(regex), SubSeq(toks, k + 1, Len(toks)))

Url(regex, view) == [regex |-> regex, view |-> view, include |-> FALSE]
Include(regex, urlconf) == [regex |-> regex, view |-> urlconf, include |-> TRUE]

\* urlpatterns: the pages of the site, the hooks and the JavaScript endpoints
SitePatterns == <<
    Url(<<End>>,
        "trans.views.home"),
    Url(<<Lit("projects"), Sl, End>>,
        "django.views.generic.simple.redirect_to"),
    Url(<<Lit("projects"), Sl, Seg, Sl, End>>,
        "trans.views.show_project"),
    Url(<<Lit("dictionaries"), Sl, Seg, Sl, End>>,
        "trans.views.show_dictionaries"),
    Url(<<Lit("dictionaries"), Sl, Seg, Sl, Seg, Sl, End>>,
        "trans.views.show_dictionary"),
    Url(<<Lit("dictionaries"), Sl, Seg, Sl, Seg, Sl, Lit("upload"), Sl, End>>,
        "trans.views.upload_dictionary"),
    Url(<<Lit("dictionaries"), Sl, Seg, Sl, Seg, Sl, Lit("delete"), Sl, End>>,
        "trans.views.delete_dictionary"),
    Url(<<Lit("dictionaries"), Sl, Seg, Sl, Seg, Sl, Lit("edit"), Sl, End>>,
        "trans.views.edit_dictionary"),
    Url(<<Lit("projects"), Sl, Seg, Sl, Seg, Sl, End>>,
        "trans.views.show_subproject"),
    Url(<<Lit("projects"), Sl, Seg, Sl, Seg, Sl, Seg, Sl, End>>,
        "trans.views.show_translation"),
    Url(<<Lit("projects"), Sl, Seg, Sl, Seg, Sl, Seg, Sl, Lit("translate"), Sl, End>>,
        "trans.views.translate"),
    Url(<<Lit("projects"), Sl, Seg, Sl, Seg, Sl, Seg, Sl, Lit("download"), Sl, End>>,
        "trans.views.download_translation"),
    Url(<<Lit("projects"), Sl, Seg, Sl, Seg, Sl, Seg, Sl, Lit("upload"), Sl, End>>,
        "trans.views.upload_translation"),
    Url(<<Lit("projects"), Sl, Seg, Sl, Seg, Sl, Seg, Sl, Lit("auto"), Sl, End>>,
        "trans.views.auto_translation"),
    Url(<<Lit("commit"), Sl, Seg, Sl, End>>,
        "trans.views.commit_project"),
    Url(<<Lit("commit"), Sl, Seg, Sl, Seg, Sl, End>>,
        "trans.views.commit_subproject"),
    Url(<<Lit("commit"), Sl, Seg, Sl, Seg, Sl, Seg, Sl, End>>,
        "trans.views.commit_translation"),
    Url(<<Lit("update"), Sl, Seg, Sl, End>>,
        "trans.views.update_project"),
    Url(<<Lit("update"), Sl, Seg, Sl, Seg, Sl, End>>,
        "trans.views.update_subproject"),
    Url(<<Lit("update"), Sl, Seg, Sl, Seg, Sl, Seg, Sl, End>>,
        "trans.views.update_translation"),
    Url(<<Lit("push"), Sl, Seg, Sl, End>>,
        "trans.views.push_project"),
    Url(<<Lit("push"), Sl, Seg, Sl, Seg, Sl, End>>,
        "trans.views.push_subproject"),
    Url(<<Lit("push"), Sl, Seg, Sl, Seg, Sl, Seg, Sl, End>>,
        "trans.views.push_translation"),
    Url(<<Lit("languages"), Sl, End>>,
        "trans.views.show_languages"),
    Url(<<Lit("languages"), Sl, Seg, Sl, End>>,
        "trans.views.show_language"),
    Url(<<Lit("checks"), Sl, End>>,
        "trans.views.show_checks"),
    Url(<<Lit("checks"), Sl, Seg, Sl, End>>,
        "trans.views.show_check"),
    Url(<<Lit("checks"), Sl, Seg, Sl, Seg, Sl, End>>,
        "trans.views.show_check_project"),
    Url(<<Lit("checks"), Sl, Seg, Sl, Seg, Sl, Seg, Sl, End>>,
        "trans.views.show_check_subproject"),
    Url(<<Lit("hooks"), Sl, Lit("update"), Sl, Seg, Sl, Seg, Sl, End>>,
        "trans.api.update_subproject"),
    Url(<<Lit("hooks"), Sl, Lit("update"), Sl, Seg, Sl, End>>,
        "trans.api.update_project"),
    Url(<<Lit("hooks"), Sl, Lit("github"), Sl, End>>,
        "trans.api.github_hook"),
    Url(<<Lit("exports"), Sl, Lit("stats"), Sl, Seg, Sl, Seg, Sl, End>>,
        "trans.api.export_stats"),
    Url(<<Lit("js"), Sl, Lit("get"), Sl, Seg, Sl, End>>,
        "trans.views.get_string"),
    Url(<<Lit("js"), Sl, Lit("ignore-check"), Sl, Digits, Sl, End>>,
        "trans.views.ignore_check"),
    Url(<<Lit("js"), Sl, Lit("i18n"), Sl, End>>,
        "django.views.i18n.javascript_catalog"),
    Url(<<Lit("js"), Sl, Lit("config"), Sl, End>>,
        "trans.views.js_config"),
    Url(<<Lit("js"), Sl, Lit("similar"), Sl, Digits, Sl, End>>,
        "trans.views.get_similar"),
    Url(<<Lit("js"), Sl, Lit("other"), Sl, Digits, Sl, End>>,
        "trans.views.get_other"),
    Url(<<Lit("js"), Sl, Lit("dictionary"), Sl, Digits, Sl, End>>,
        "trans.views.get_dictionary"),
    Url(<<Lit("js"), Sl, Lit("git"), Sl, Seg, Sl, End>>,
        "trans.views.git_status_project"),
    Url(<<Lit("js"), Sl, Lit("git"), Sl, Seg, Sl, Seg, Sl, End>>,
        "trans.views.git_status_subproject"),
    Url(<<Lit("js"), Sl, Lit("git"), Sl, Seg, Sl, Seg, Sl, Seg, Sl, End>>,
        "trans.views.git_status_translation")>>

\* The catch-all include of the admin site comes first.
AdminPatternsCatchAllFirst == <<
    Include(<<Lit("admin"), Sl>>,
        "admin.site.urls"),
    Include(<<Lit("admin"), Sl, Lit("doc"), Sl>>,
        "django.contrib.admindocs.urls"),
    Url(<<Lit("admin"), Sl, Lit("report"), Sl, End>>,
        "trans.admin_views.report")>>

\* urlpatterns: "Admin interface"
AdminPatterns == <<
    Include(<<Lit("admin"), Sl, Lit("doc"), Sl>>,
        "django.contrib.admindocs.urls"),
    Url(<<Lit("admin"), Sl, Lit("report"), Sl, End>>,
        "trans.admin_views.report"),
    Include(<<Lit("admin"), Sl>>,
        "admin.site.urls")>>

\* urlpatterns: "Auth"
AuthPatterns == <<
    Url(<<Lit("accounts"), Sl, Lit("register"), Sl, End>>,
        "register:weblate_register"),
    Url(<<Lit("accounts"), Sl, Lit("register"), Sl, Lit("complete"), Sl, End>>,
        "direct_to_template:registration_complete"),
    Url(<<Lit("accounts"), Sl, Lit("activate"), Sl, Word, Sl, End>>,
        "activate:registration_activate"),
    Url(<<Lit("accounts"), Sl, Lit("login"), Sl, End>>,
        "auth_views.login:auth_login"),
    Url(<<Lit("accounts"), Sl, Lit("logout"), Sl, End>>,
        "auth_views.logout:auth_logout"),
    Url(<<Lit("accounts"), Sl, Lit("password"), Sl, Lit("change"), Sl, End>>,
        "auth_views.password_change:auth_password_change"),
    Url(<<Lit("accounts"), Sl, Lit("password"), Sl, Lit("change"), Sl, Lit("done"), Sl, End>>,
        "auth_views.password_change_done:auth_password_change_done"),
    Url(<<Lit("accounts"), Sl, Lit("password"), Sl, Lit("reset"), Sl, End>>,
        "auth_views.password_reset:auth_password_reset"),
    Url(<<Lit("accounts"), Sl, Lit("password"), Sl, Lit("reset"), Sl, Lit("confirm"), Sl, Alnum, Lit("-"), AnyText1, Sl, End>>,
        "auth_views.password_reset_confirm:auth_password_reset_confirm"),
    Url(<<Lit("accounts"), Sl, Lit("password"), Sl, Lit("reset"), Sl, Lit("complete"), Sl, End>>,
        "auth_views.password_reset_complete:auth_password_reset_complete"),
    Url(<<Lit("accounts"), Sl, Lit("password"), Sl, Lit("reset"), Sl, Lit("done"), Sl, End>>,
        "auth_views.password_reset_done:auth_password_reset_done"),
    Url(<<Lit("accounts"), Sl, Lit("profile"), Sl>>,
        "accounts.views.profile")>>

\* urlpatterns: contact, about and "Media files"
OtherPatterns == <<
    Url(<<Lit("contact"), Sl>>,
        "accounts.views.contact"),
    Url(<<Lit("about"), Sl, End>>,
        "trans.views.about"),
    Url(<<Lit("media"), Sl, AnyText, End>>,
        "django.views.static.serve")>>

urlpatterns == SitePatterns \o AdminPatterns \o AuthPatterns \o OtherPatterns

IncludedConfs == {"django.contrib.admindocs.urls", "admin.site.urls"}

\* A pattern resolves the path if its expression matches and, for an
\* include(), the URLconf included resolves the rest of the path.
Resolves(entry, p, inc) ==
    Matches(entry.regex, p) /\ (entry.include => entry.view \in inc)

NoRoute == [outcome |-> "none", view |-> "", pattern |-> 0]

\* The resolver tries the patterns in the order of the table.
RECURSIVE ResolveFrom(_, _, _, _)
ResolveFrom(table, i, p, inc) ==
    IF i > Len(table) THEN [outcome |-> "404", view |-> "", pattern |-> 0]
    ELSE IF Resolves(table[i], p, inc)
    THEN [outcome |-> "view", view |-> table[i].view, pattern |-> i]
    ELSE ResolveFrom(table, i + 1, p, inc)

Resolve(table, p, inc) == ResolveFrom(table, 1, p, inc)

\* The request path is dispatched.
Dispatch ==
    /\ route = NoRoute
    /\ route' = Resolve(urlpatterns, path, included)
    /\ UNCHANGED <<path, included, dictVars, checkVars, initVars>>

(***************************************************************************)
(* Initialisation of the weblate module: weblate/__init__.py.              *)
(*                                                                         *)
(* A string is the sequence of its pieces.  The description of the          *)
(* checkout that git prints is spelled in characters.                      *)
(***************************************************************************)
MaxDescLen == 6
DigitChars == {"0", "1", "2"}
DescChars == {"v", "-"} \cup DigitChars
ReleaseDistance == 20

\* What git.Repo(...).git.describe() does: it prints a description or
\* raises git.exc.GitCommandError.
GitCommandError == [ok |-> FALSE, out |-> <<>>]
Described(s) == [ok |-> TRUE, out |-> s]

\* str.split('-')
RECURSIVE split(_)
split(s) ==
    IF \A i \in 1..Len(s) : s[i] # "-" THEN <<s>>
    ELSE LET k == CHOOSE i \in 1..Len(s) :
                      s[i] = "-" /\ \A j \in 1..(i - 1) : s[j] # "-"
         IN  <<SubSeq(s, 1, k - 1)>> \o split(SubSeq(s, k + 1, Len(s)))

\* int(text) raises ValueError unless the text is a number.
IsNumber(text) == text # <<>> /\ \A i \in 1..Len(text) : text[i] \in DigitChars

DigitValue(c) == CASE c = "0" -> 0 [] c = "1" -> 1 [] c = "2" -> 2

RECURSIVE int(_)
int(text) ==
    IF text = <<>> THEN 0
    ELSE 10 * int(SubSeq(text, 1, Len(text) - 1)) + DigitValue(text[Len(text)])

InitialVersion == <<"1.6">>
Unbound == <<>>

\* The module has been executed to its end.
Imported(version, running, release, described) ==
    [pc |-> "done", VERSION |-> version, RUNNING_GIT |-> running,
     GIT_RELEASE |-> release, GIT_VERSION |-> described, raised |-> ""]

\* An exception has left the module.
Raised(exception, described) ==
    [pc |-> "failed", VERSION |-> InitialVersion, RUNNING_GIT |-> TRUE,
     GIT_RELEASE |-> FALSE, GIT_VERSION |-> described, raised |-> exception]

\* The except clause evaluates git.exc.GitCommandError while the name git
\* is not bound.
ImportFailure == Raised("NameError", Unbound)

\* The module body, from VERSION = '1.6' to the end of the try statement.
weblate_init(e) ==
    IF ~e.inGit THEN Imported(InitialVersion, FALSE, FALSE, Unbound)
    ELSE IF ~e.importOK THEN ImportFailure
    ELSE IF ~e.describe.ok THEN Imported(InitialVersion, FALSE, FALSE, Unbound)
    ELSE LET parts == split(e.describe.out)
         IN  IF Len(parts) <= 2
             THEN Imported(InitialVersion, TRUE, TRUE, e.describe.out)
             ELSE IF ~IsNumber(parts[3])
             THEN Raised("ValueError", e.describe.out)
             ELSE IF int(parts[3]) < ReleaseDistance
             THEN Imported(InitialVersion, TRUE, TRUE, e.describe.out)
             ELSE Imported(Append(InitialVersion, "-dev"), TRUE, FALSE,
                           e.describe.out)

DocPages == {"index", "admin"}
Anchors == {"", "hooks"}

\* The version segment is that of the release whatever the checkout is.
get_doc_url_of_release(version, running, release, page, anchor) ==
    LET url == <<"http://weblate.readthedocs.org/en/", "weblate-">> \o version \o
               <<"/", page, ".html">>
    IN  IF anchor # "" THEN url \o <<"#", anchor>> ELSE url

get_doc_url(version, running, release, page, anchor) ==
    LET segment == IF running /\ ~release THEN <<"latest">>
                   ELSE <<"weblate-">> \o version
        url == <<"http://weblate.readthedocs.org/en/">> \o segment \o
               <<"/", page, ".html">>
    IN  IF anchor # "" THEN url \o <<"#", anchor>> ELSE url

\* No documentation URL has been asked for.
NoDocUrl == [page |-> "", anchor |-> "", url |-> <<>>]

\* The module is imported.
ImportWeblate ==
    /\ pc = "import"
    /\ LET r == weblate_init(env)
       IN  /\ pc' = r.pc
           /\ VERSION' = r.VERSION
           /\ RUNNING_GIT' = r.RUNNING_GIT
           /\ GIT_RELEASE' = r.GIT_RELEASE
           /\ GIT_VERSION' = r.GIT_VERSION
           /\ raised' = r.raised
    /\ UNCHANGED <<env, doc_url, dictVars, checkVars, urlVars>>

\* A caller of the imported module asks for a documentation URL.
GetDocUrl ==
    /\ pc = "done"
    /\ \E page \in DocPages, anchor \in Anchors :
          doc_url' = [page |-> page, anchor |-> anchor,
                      url |-> get_doc_url(VERSION, RUNNING_GIT, GIT_RELEASE,
                                          page, anchor)]
    /\ UNCHANGED <<pc, env, VERSION, RUNNING_GIT, GIT_RELEASE, GIT_VERSION,
                   raised, dictVars, checkVars, urlVars>>

(***************************************************************************)
(* The dictionary of a site: it starts empty and the handlers fill it.     *)
(***************************************************************************)
\* The parts of the state a specification leaves alone.
DictQuiet == dictionary = {} /\ nextId = 1 /\ resp = NoResponse
ChecksQuiet == checks = {} /\ units = {} /\ cresp = NoCheckResponse
UrlQuiet == path = <<>> /\ included = {} /\ route = NoRoute
InitQuiet ==
    /\ pc = "off" /\ env = <<>> /\ VERSION = <<>> /\ RUNNING_GIT = FALSE
    /\ GIT_RELEASE = FALSE /\ GIT_VERSION = <<>> /\ raised = "" /\ doc_url = NoDocUrl

InitDict ==
    /\ dictionary = {}
    /\ nextId = 1
    /\ resp = NoResponse
    /\ ChecksQuiet /\ UrlQuiet /\ InitQuiet

NextDict ==
    \/ EditDictionary(Users, ProjectArgs, LangArgs)
    \/ DeleteDictionary(Users, ProjectArgs, LangArgs)
    \/ UploadDictionary(Users, ProjectArgs, LangArgs)
    \/ DownloadDictionary(ProjectArgs, LangArgs)
    \/ ShowDictionary(Users, ProjectArgs, LangArgs,
                      {NoParam}, {NoParam}, {""})
    \/ Respond

SpecDict == InitDict /\ [][NextDict]_vars

(***************************************************************************)
(* The listing of a dictionary of up to MaxPaged words, page by page.      *)
(***************************************************************************)
Pages == {NoParam, TextParam} \cup {IntParam(n) : n \in -1..4}
Limits == {NoParam, IntParam(10)}

InitPaging ==
    /\ \E k \in 0..MaxPaged :
          /\ dictionary = {[id |-> i, project |-> "p1", language |-> "cs",
                            source |-> 1 + (i % MaxWord), target |-> 1] :
                              i \in 1..k}
          /\ nextId = k + 1
    /\ resp = NoResponse
    /\ ChecksQuiet /\ UrlQuiet /\ InitQuiet

NextPaging ==
    \/ ShowDictionary({Anonymous}, {"p1"}, {"cs"}, Pages, Limits, {"", "a"})
    \/ Respond

SpecPaging == InitPaging /\ [][NextPaging]_vars

(***************************************************************************)
(* The checks of a site: up to MaxChecks rows, no two for the same check,  *)
(* project, language and checksum; at most one unit is not translated.     *)
(***************************************************************************)
UnitIds == 1..6

InitChecks ==
    /\ \E n \in 0..MaxChecks :
          \E rows \in [1..n -> ValidCheckRows] :
              /\ \A i, j \in 1..n : i # j => CheckKey(rows[i]) # CheckKey(rows[j])
              /\ checks = {rows[i] : i \in 1..n}
    /\ \E untranslated \in {{}} \cup {{i} : i \in UnitIds} :
          units = UnitTable([i \in UnitIds |-> i \notin untranslated])
    /\ cresp = NoCheckResponse
    /\ DictQuiet /\ UrlQuiet /\ InitQuiet

NextChecks ==
    \/ ShowChecks
    \/ ShowCheck
    \/ ShowCheckProject
    \/ ShowCheckSubproject
    \/ IgnoreCheck
    \/ RespondCheck

SpecChecks == InitChecks /\ [][NextChecks]_vars

(***************************************************************************)
(* The paths dispatched: each expression of the table with its groups      *)
(* filled in, also with text that the group does not allow, then cut       *)
(* short or carried on.                                                    *)
(***************************************************************************)
GroupTexts == {<<>>, <<"x">>, <<"7">>, <<"x", "-", "7">>, <<"x", "/", "x">>,
               <<"update">>}
Endings == {<<>>, <<"x">>, <<"x", "/">>, <<"doc", "/">>, <<"report", "/">>}

RECURSIVE Instances(_)
Instances(regex) ==
    IF regex = <<>> THEN {<<>>}
    ELSE LET e == Head(regex)
             heads == IF e.kind = "lit" THEN {<<e.tok>>}
                      ELSE IF e.kind = "rep" THEN GroupTexts
                      ELSE {<<>>}
         IN  {h \o t : h \in heads, t \in Instances(Tail(regex))}

Paths ==
    LET filled == UNION {Instances(urlpatterns[i].regex) :
                            i \in 1..Len(urlpatterns)}
    IN  {p \o e : p \in filled, e \in Endings} \cup
        {SubSeq(p, 1, Len(p) - 1) : p \in filled \ {<<>>}}

InitUrls ==
    /\ path \in Paths
    /\ included \in SUBSET IncludedConfs
    /\ route = NoRoute
    /\ DictQuiet /\ ChecksQuiet /\ InitQuiet

NextUrls == Dispatch

SpecUrls == InitUrls /\ [][NextUrls]_vars

(***************************************************************************)
(* The environments the module is imported in.  What is not consulted is   *)
(* left at one value: the import of git outside a checkout, the            *)
(* description when git cannot be imported.                                *)
(***************************************************************************)
RECURSIVE Texts(_)
Texts(n) ==
    IF n = 0 THEN {<<>>}
    ELSE LET shorter == Texts(n - 1)
         IN  shorter \cup {Append(s, c) : s \in shorter, c \in DescChars}

Descriptions == {s \in Texts(MaxDescLen) : s # <<>> /\ s[1] # "-"}

Environments ==
    {[inGit |-> FALSE, importOK |-> TRUE, describe |-> GitCommandError],
     [inGit |-> TRUE, importOK |-> FALSE, describe |-> GitCommandError],
     [inGit |-> TRUE, importOK |-> TRUE, describe |-> GitCommandError]} \cup
    {[inGit |-> TRUE, importOK |-> TRUE, describe |-> Described(s)] :
        s \in Descriptions}

InitInit ==
    /\ pc = "import"
    /\ env \in Environments
    /\ VERSION = InitialVersion
    /\ RUNNING_GIT = env.inGit
    /\ GIT_RELEASE = FALSE
    /\ GIT_VERSION = Unbound
    /\ raised = ""
    /\ doc_url = NoDocUrl
    /\ DictQuiet /\ ChecksQuiet /\ UrlQuiet

NextInit == ImportWeblate \/ GetDocUrl

SpecInit == InitInit /\ [][NextInit]_vars

(***************************************************************************)
(* Properties of the dictionary handlers.                                  *)
(***************************************************************************)
\* The step that handles a request: its response is in resp'.
Handled(handlers) == resp = NoResponse /\ resp'.req.handler \in handlers

\* The permission each writing operation asks for.
RequiredPerm(handler) ==
    CASE handler = "show_dictionary" -> "trans.add_dictionary"
      [] handler = "edit_dictionary" -> "trans.change_dictionary"
      [] handler = "delete_dictionary" -> "trans.delete_dictionary"
      [] handler = "upload_dictionary" -> "trans.upload_dictionary"

WritingHandlers == {"show_dictionary", "edit_dictionary",
                    "delete_dictionary", "upload_dictionary"}

\* The user of the request is not logged in or lacks the operation's permission.
Unauthorized(req) ==
    /\ req.handler \in WritingHandlers
    /\ ~req.user.auth \/ RequiredPerm(req.handler) \notin req.user.perms

\* C1: a request to show_dictionary (POST), edit_dictionary,
\* delete_dictionary or upload_dictionary by a user who is not logged in or
\* lacks the permission of that operation leaves the set of Dictionary
\* entries, and every entry's source and target, as they were.
C1_UnauthorizedChangesNothing ==
    [][(Handled(WritingHandlers) /\ Unauthorized(resp'.req))
          => dictionary' = dictionary]_vars

\* A logged-in user without trans.delete_dictionary has asked, by POST, to
\* delete an entry that exists in the project and language of the URL.
C1_Witness ==
    /\ resp.req.handler = "delete_dictionary"
    /\ resp.req.method = "POST"
    /\ resp.req.user.auth
    /\ resp.req.user.perms # {}
    /\ Unauthorized(resp.req)
    /\ \E w \in dictionary :
          /\ w.id = resp.req.pid
          /\ w.project = resp.req.project
          /\ w.language = resp.req.lang

\* The request reached the validation of its form, which failed.
FormFailed(r, handler) ==
    /\ r.req.handler = handler
    /\ r.req.method = "POST"
    /\ r.outcome # "404"
    /\ r.location # <<"login">>
    /\ IF handler = "upload_dictionary" THEN ~DictUploadFormValid(r.req.file)
       ELSE ~WordFormValid(r.req.form)
    /\ handler = "show_dictionary" => has_perm(r.req.user, "trans.add_dictionary")

\* C3 as stated: whenever a form submitted to a dictionary handler fails
\* validation (upload_dictionary, show_dictionary POST, edit_dictionary
\* POST), the request adds a flash message.
C3_FailedFormAddsMessage ==
    \A handler \in {"upload_dictionary", "show_dictionary", "edit_dictionary"} :
        FormFailed(resp, handler) => resp.messages # <<>>

\* C3 as the code has it: a failed DictUploadForm in upload_dictionary adds
\* one error message; a failed WordForm adds none: show_dictionary
\* redirects to the same path, edit_dictionary renders the edit page again.
C3_FailedFormOutcome ==
    /\ FormFailed(resp, "upload_dictionary") =>
          /\ Len(resp.messages) = 1
          /\ resp.messages[1].level = "error"
          /\ resp.outcome = "redirect"
    /\ FormFailed(resp, "show_dictionary") =>
          /\ resp.messages = <<>>
          /\ resp.outcome = "redirect"
          /\ resp.location = <<"self">>
    /\ FormFailed(resp, "edit_dictionary") =>
          /\ resp.messages = <<>>
          /\ resp.outcome = "page"
          /\ resp.template = "edit_dictionary.html"

\* An upload without a file by a user who may upload.
C3_Witness ==
    /\ FormFailed(resp, "upload_dictionary")
    /\ resp.req.file = NoFile
    /\ resp.messages # <<>>

\* The format a download is asked in: po or tbx when the parameter is that
\* value, csv for every other value and for no parameter.
AskedFormat(fmt) == IF fmt = "po" THEN "po" ELSE IF fmt = "tbx" THEN "tbx" ELSE "csv"

MimeTypeOf(format) ==
    CASE format = "csv" -> "text/csv"
      [] format = "po" -> "text/x-po"
      [] format = "tbx" -> "application/x-tbx"

FileNameOf(format, project, lang) ==
    IF format = "csv" THEN <<"dictionary", project, lang, "csv">>
    ELSE <<"glossary", project, lang, format>>

\* The number of rows of the export with that source and target.
RowCount(rows, source, target) ==
    Cardinality({i \in 1..Len(rows) :
                    rows[i].source = source /\ rows[i].target = target})

\* C4: a download of an existing project and language is an export in the
\* format asked (po, tbx, or else csv), with that format's content type and
\* file name, and one row per Dictionary entry of the project and
\* language, in ascending order of source.
C4_DownloadFormatAndRows ==
    (/\ resp.req.handler = "download_dictionary"
     /\ resp.req.project \in Projects
     /\ resp.req.lang \in Languages)
    => LET format == AskedFormat(resp.req.fmt)
           entries == {w \in dictionary : /\ w.project = resp.req.project
                                          /\ w.language = resp.req.lang}
       IN  /\ resp.outcome = "download"
           /\ resp.mimetype = MimeTypeOf(format)
           /\ resp.filename = FileNameOf(format, resp.req.project, resp.req.lang)
           /\ Len(resp.rows) = Cardinality(entries)
           /\ \A w \in entries :
                 RowCount(resp.rows, w.source, w.target) =
                 Cardinality({v \in entries : /\ v.source = w.source
                                               /\ v.target = w.target})
           /\ \A i, j \in 1..Len(resp.rows) :
                 i < j => resp.rows[i].source <= resp.rows[j].source

\* A download with a format parameter that is none of the three, of a
\* project and language with an entry, while another project has one too.
C4_Witness ==
    /\ resp.req.handler = "download_dictionary"
    /\ resp.req.fmt = "xml"
    /\ resp.mimetype = "text/csv"
    /\ Len(resp.rows) = 1
    /\ \E w \in dictionary : w.project # resp.req.project

\* The entry a request to edit_dictionary or delete_dictionary names: the
\* one of the id given, in the project and language of the URL.
GivenId(req) == IF req.handler = "edit_dictionary" THEN req.qid ELSE req.pid

Named(db, req) ==
    {w \in db : /\ GivenId(req) # NoId
                /\ w.id = GivenId(req)
                /\ w.project = req.project
                /\ w.language = req.lang}

Edited(w, form) == [id |-> w.id, project |-> w.project, language |-> w.language,
                    source |-> form.source, target |-> form.target]

UploadReached(req) ==
    /\ req.handler = "upload_dictionary"
    /\ req.user.auth
    /\ "trans.upload_dictionary" \in req.user.perms
    /\ req.project \in Projects
    /\ req.lang \in Languages

\* C12: every request to upload_dictionary that passes the login and
\* permission checks and names an existing project and language ends in a
\* redirect to show_dictionary of that project and language with exactly
\* one flash message: a warning when the upload imported no word, an info
\* message with the count when it imported some, an error when the request
\* is not a POST, the form is invalid or the upload raised an exception,
\* which never leaves the handler.
C12_UploadRedirectsWithOneMessage ==
    [][(Handled({"upload_dictionary"}) /\ UploadReached(resp'.req)) =>
          LET req == resp'.req
              up == DictionaryUpload(dictionary, nextId, req.project, req.lang,
                                     req.file, req.upmethod)
              level == IF req.method # "POST" \/ req.file.kind = "absent"
                          \/ up.raised
                       THEN "error"
                       ELSE IF up.count = 0 THEN "warning" ELSE "info"
          IN  /\ resp'.outcome = "redirect"
              /\ resp'.location = <<"show_dictionary", req.project, req.lang>>
              /\ Len(resp'.messages) = 1
              /\ resp'.messages[1].level = level
              /\ level = "info" => resp'.messages[1].count = up.count]_vars

\* C13: for an existing project and language, a POST to show_dictionary
\* by a user holding trans.add_dictionary ends in a redirect to the same
\* path and adds exactly one entry, of the URL's project and language and
\* the form's source and target, if and only if the WordForm is valid.  A
\* POST by a user without the permission, and every GET, adds no entry and
\* renders the listing.
C13_AddOnValidPostOnly ==
    [][(/\ Handled({"show_dictionary"})
        /\ resp'.req.project \in Projects
        /\ resp'.req.lang \in Languages) =>
          LET req == resp'.req
              added == dictionary' \ dictionary
          IN  /\ dictionary \subseteq dictionary'
              /\ IF /\ req.method = "POST"
                    /\ req.user.auth
                    /\ "trans.add_dictionary" \in req.user.perms
                 THEN /\ resp'.outcome = "redirect"
                      /\ resp'.location = <<"self">>
                      /\ IF req.form.source # Blank /\ req.form.target # Blank
                         THEN /\ Cardinality(added) = 1
                              /\ \A w \in added :
                                    /\ w.project = req.project
                                    /\ w.language = req.lang
                                    /\ w.source = req.form.source
                                    /\ w.target = req.form.target
                         ELSE added = {}
                 ELSE /\ added = {}
                      /\ resp'.outcome = "page"
                      /\ resp'.template = "dictionary.html"]_vars

\* A user holding trans.add_dictionary has posted a valid form, and the
\* entry is in the dictionary of the project and language of the URL.
C13_Witness ==
    /\ resp.req.handler = "show_dictionary"
    /\ resp.req.method = "POST"
    /\ "trans.add_dictionary" \in resp.req.user.perms
    /\ resp.outcome = "redirect"
    /\ resp.location = <<"self">>
    /\ \E w \in dictionary :
          /\ w.id = nextId - 1
          /\ w.project = resp.req.project
          /\ w.language = resp.req.lang
          /\ w.source = resp.req.form.source
          /\ w.target = resp.req.form.target

(***************************************************************************)
(* Properties of the check listings.                                       *)
(***************************************************************************)
CheckHandlers == {"show_check", "show_check_project", "show_check_subproject"}

\* C2: show_check, show_check_project and show_check_subproject called
\* with a name that is no key of CHECKS end in 404 and render no page,
\* whatever the project and subproject; show_check with a name that is a
\* key of CHECKS does not end in 404.
C2_UnknownCheckIsNotFound ==
    /\ (cresp.req.handler \in CheckHandlers /\ cresp.req.name \notin DOMAIN CHECKS)
          => (cresp.outcome = "404" /\ cresp.rows = {})
    /\ (cresp.req.handler = "show_check" /\ cresp.req.name \in DOMAIN CHECKS)
          => cresp.outcome = "page"

\* show_check was asked for a name that is no check while checks of other
\* names are failing.
C2_Witness ==
    /\ cresp.req.handler = "show_check"
    /\ cresp.req.name = "bogus"
    /\ cresp.outcome = "404"
    /\ \E c \in checks : ~c.ignore

\* The count a listing reports for a key: 0 when the key is not listed.
CountOf(rows, key) ==
    IF \E r \in rows : r.key = key
    THEN (CHOOSE r \in rows : r.key = key).count
    ELSE 0

\* The rows of a listing: one per key, none with a count of 0.
WellFormed(rows) ==
    /\ \A r \in rows : r.count > 0
    /\ \A r, q \in rows : r.key = q.key => r = q

\* The Check records of that name (and project) that are not ignored.
NotIgnored(name) == {c \in checks : c.check = name /\ c.ignore = FALSE}
NotIgnoredIn(name, project) == {c \in NotIgnored(name) : c.project = project}

C6_Counts ==
    /\ cresp.req.handler = "show_checks" =>
          /\ WellFormed(cresp.rows)
          /\ \A r \in cresp.rows : r.key[1] \in DOMAIN CHECKS
          /\ \A n \in DOMAIN CHECKS :
                CountOf(cresp.rows, <<n>>) = Cardinality(NotIgnored(n))
    /\ (cresp.req.handler = "show_check" /\ cresp.outcome = "page") =>
          /\ WellFormed(cresp.rows)
          /\ \A r \in cresp.rows : r.key[1] \in Projects
          /\ \A p \in Projects :
                CountOf(cresp.rows, <<p>>) =
                Cardinality(NotIgnoredIn(cresp.req.name, p))

\* A step that sets ignore on the record c lowers by one the count that
\* show_checks reports for c's name and that show_check reports for c's
\* project.
C6_IgnoreLowers ==
    \A c \in checks :
        (c \notin checks') =>
            LET all == [NoCheckRequest EXCEPT !.handler = "show_checks"]
                one == [NoCheckRequest EXCEPT !.handler = "show_check",
                                              !.name = c.check]
            IN  /\ CountOf(show_checks(checks', all).rows, <<c.check>>) =
                   CountOf(show_checks(checks, all).rows, <<c.check>>) - 1
                /\ CountOf(show_check(checks', one).rows, <<c.project>>) =
                   CountOf(show_check(checks, one).rows, <<c.project>>) - 1

\* C6: the failing-check listings never count an ignored check: show_checks
\* reports for a name the number of Check records of that name with
\* ignore = False, show_check reports for a project the number of those of
\* the name in that project; a name or project without such a record is
\* not listed; and setting ignore on a record lowers its count by one.
C6_IgnoredChecksAreNotCounted == []C6_Counts /\ [][C6_IgnoreLowers]_vars

\* show_checks lists a name once although a second record of that name
\* exists, which is ignored.
C6_Witness ==
    /\ cresp.req.handler = "show_checks"
    /\ \E c, d \in checks : c.check = d.check /\ c.ignore /\ ~d.ignore
                           /\ CountOf(cresp.rows, <<c.check>>) = 1

\* The units a target check of that name fails for in the project: those
\* translated, of the project, with a record of the name that is not
\* ignored, in that project, for the unit's checksum and language.
Failing(name, project) ==
    {u \in units :
        /\ u.translated
        /\ \E s \in SubProjects : s.slug = u.subproject /\ s.project = project
        /\ \E c \in checks : /\ c.check = name
                             /\ c.ignore = FALSE
                             /\ c.project = project
                             /\ c.checksum = u.checksum
                             /\ c.language = u.language}

\* C8: for a target check, show_check_project reports for each subproject
\* of the project, and show_check_subproject for each language of the
\* subproject, the number of units that are translated, belong to it and
\* have a not ignored Check record of that name in the project for their
\* checksum and their language; nothing else is counted.
C8_TargetChecksCountFailingUnits ==
    /\ (/\ cresp.req.handler = "show_check_project"
        /\ cresp.req.project \in Projects
        /\ cresp.req.name \in DOMAIN CHECKS
        /\ CHECKS[cresp.req.name].target)
       => /\ cresp.outcome = "page"
          /\ WellFormed(cresp.rows)
          /\ \A r \in cresp.rows : r.key[2] = cresp.req.project
          /\ \A s \in SubProjectArgs :
                CountOf(cresp.rows, <<s, cresp.req.project>>) =
                Cardinality({u \in Failing(cresp.req.name, cresp.req.project) :
                                u.subproject = s})
    /\ (/\ cresp.req.handler = "show_check_subproject"
        /\ \E s \in SubProjects : /\ s.slug = cresp.req.subproject
                                  /\ s.project = cresp.req.project
        /\ cresp.req.name \in DOMAIN CHECKS
        /\ CHECKS[cresp.req.name].target)
       => /\ cresp.outcome = "page"
          /\ WellFormed(cresp.rows)
          /\ \A r \in cresp.rows : r.key[1] \in Languages
          /\ \A l \in Languages :
                CountOf(cresp.rows, <<l>>) =
                Cardinality({u \in Failing(cresp.req.name, cresp.req.project) :
                                u.subproject = cresp.req.subproject
                                /\ u.language = l})

\* show_check_project reports one unit for a subproject that has two
\* translated units of the checksum, in two languages: the check is
\* recorded for one of the languages only.
C8_Witness ==
    /\ cresp.req.handler = "show_check_project"
    /\ cresp.req.name = "same"
    /\ cresp.req.project = "p1"
    /\ CountOf(cresp.rows, <<"s1", "p1">>) = 1
    /\ \E c \in checks : /\ c.check = "same" /\ ~c.ignore /\ c.project = "p1"
                         /\ c.language = "de" /\ c.checksum = "c1"
    /\ \A c \in checks : c.language # "cs"
    /\ \A u \in units : u.translated

\* C14: for every existing project and subproject and every check name
\* that is a key of CHECKS, show_check_project and show_check_subproject
\* return a rendered page; a subproject without a translation counts as
\* zero for a source check and does not make the request fail.
C14_KnownObjectsGiveAPage ==
    /\ (/\ cresp.req.handler = "show_check_project"
        /\ cresp.req.name \in DOMAIN CHECKS
        /\ cresp.req.project \in Projects) => cresp.outcome = "page"
    /\ (/\ cresp.req.handler = "show_check_subproject"
        /\ cresp.req.name \in DOMAIN CHECKS
        /\ \E s \in SubProjects : /\ s.slug = cresp.req.subproject
                                   /\ s.project = cresp.req.project)
          => cresp.outcome = "page"

(***************************************************************************)
(* Properties of the URL table.                                            *)
(***************************************************************************)
\* The patterns whose expression matches the path.
Matching(p) == {i \in 1..Len(urlpatterns) : Matches(urlpatterns[i].regex, p)}

StartsWithAdmin(p) == Len(p) >= 2 /\ p[1] = "admin" /\ p[2] = "/"

Reverse(s) == [i \in 1..Len(s) |-> s[Len(s) + 1 - i]]

\* C7: a path is dispatched to the first pattern of urlpatterns, in the
\* order of the table, that resolves it.  A path that more than one
\* pattern matches starts with admin/; admin/doc/ and admin/report/ are
\* listed before the catch-all admin/ include, so admin/report/ reaches
\* trans.admin_views.report and admin/doc/ the admin documentation.  For every other path at most one pattern
\* matches, so the table in another order chooses the same handler.
C7_DispatchIsUnambiguous ==
    route # NoRoute =>
        LET resolving == {i \in 1..Len(urlpatterns) :
                             Resolves(urlpatterns[i], path, included)}
        IN  /\ IF resolving = {} THEN route.outcome = "404"
               ELSE /\ route.outcome = "view"
                    /\ route.pattern \in resolving
                    /\ \A i \in resolving : route.pattern <= i
                    /\ route.view = urlpatterns[route.pattern].view
            /\ Cardinality(Matching(path)) > 1 => StartsWithAdmin(path)
            /\ path = <<"admin", "/", "report", "/">> =>
                  route.view = "trans.admin_views.report"
            /\ (/\ Len(path) >= 4
                /\ SubSeq(path, 1, 4) = <<"admin", "/", "doc", "/">>
                /\ "django.contrib.admindocs.urls" \in included) =>
                  route.view = "django.contrib.admindocs.urls"
            /\ ~StartsWithAdmin(path) =>
                  /\ Cardinality(Matching(path)) <= 1
                  /\ Resolve(Reverse(urlpatterns), path, included).view = route.view

\* admin/report/ is dispatched while the admin site, whose include()
\* matches the path as well, would resolve it too.
C7_Witness ==
    /\ path = <<"admin", "/", "report", "/">>
    /\ "admin.site.urls" \in included
    /\ Cardinality(Matching(path)) = 2
    /\ route.view = "trans.admin_views.report"

(***************************************************************************)
(* Properties of the initialisation of the weblate module.                 *)
(***************************************************************************)
GitFailure == env.inGit /\ (~env.importOK \/ ~env.describe.ok)

\* C10: if importing the git module fails, or git cannot describe the
\* repository, inside a Git checkout, then the initialisation completes
\* with RUNNING_GIT False, GIT_RELEASE False and VERSION without the
\* '-dev' suffix, and no exception escapes it.
C10_InitSurvivesGitFailure ==
    (pc # "import" /\ GitFailure) =>
        /\ pc = "done"
        /\ raised = ""
        /\ RUNNING_GIT = FALSE
        /\ GIT_RELEASE = FALSE
        /\ VERSION = InitialVersion

\* The places of the '-' characters of a text.
Dashes(s) == {i \in 1..Len(s) : s[i] = "-"}

\* The text between the second '-' and the third, or the end.
ThirdPart(s) ==
    LET second == CHOOSE i \in Dashes(s) :
                      Cardinality({j \in Dashes(s) : j < i}) = 1
        later == {i \in Dashes(s) : i > second}
        stop == IF later = {} THEN Len(s) + 1
                ELSE CHOOSE i \in later : \A j \in later : i <= j
    IN  SubSeq(s, second + 1, stop - 1)

\* A text of digits: without its leading zeros it has at most one digit,
\* or two of which the first is 1.
BelowTwenty(t) ==
    /\ t # <<>>
    /\ \A i \in 1..Len(t) : t[i] \in DigitChars
    /\ LET zeros == {i \in 1..Len(t) : \A j \in 1..i : t[j] = "0"}
           rest == Len(t) - Cardinality(zeros)
       IN  rest <= 1 \/ (rest = 2 /\ t[Cardinality(zeros) + 1] = "1")

CloseToRelease(s) ==
    Cardinality(Dashes(s)) <= 1 \/ BelowTwenty(ThirdPart(s))

HasDev(text) == \E i \in 1..Len(text) : text[i] = "-dev"

\* C11: once the module is initialised, VERSION ends in '-dev' if and only
\* if RUNNING_GIT is True and GIT_RELEASE is False; GIT_RELEASE is True
\* exactly when the description git gave has at most two '-'-separated
\* parts or its third part is a number below 20.  get_doc_url uses the
\* version segment 'latest' in exactly the '-dev' case and
\* 'weblate-<VERSION>' otherwise, so no URL contains '-dev', and it appends
\* '#<anchor>' if and only if the anchor is not empty.
C11_VersionAndDocUrl ==
    pc = "done" =>
        LET dev == RUNNING_GIT /\ ~GIT_RELEASE
            base == <<"http://weblate.readthedocs.org/en/">> \o
                    (IF dev THEN <<"latest">> ELSE <<"weblate-", "1.6">>) \o
                    <<"/", doc_url.page, ".html">>
        IN  /\ VERSION = (IF dev THEN <<"1.6", "-dev">> ELSE <<"1.6">>)
            /\ RUNNING_GIT = (env.inGit /\ env.importOK /\ env.describe.ok)
            /\ GIT_RELEASE = (RUNNING_GIT /\ CloseToRelease(env.describe.out))
            /\ doc_url # NoDocUrl =>
                  /\ ~HasDev(doc_url.url)
                  /\ doc_url.url = (IF doc_url.anchor = "" THEN base
                                    ELSE base \o <<"#", doc_url.anchor>>)

\* A URL with an anchor was asked of a development checkout: the tag is 20
\* commits or more behind.
C11_Witness ==
    /\ pc = "done"
    /\ HasDev(VERSION)
    /\ Cardinality(Dashes(env.describe.out)) >= 2
    /\ doc_url.anchor # ""
    /\ doc_url.url[2] = "latest"

====
